---- MODULE Spec2Model ----
(***************************************************************************)
(* Model of the comparative analytics core of seo_analyzer_streamlit.py:   *)
(* gsc_to_dataframe, ga4_to_dataframe, analyze_trends,                     *)
(* analyze_performance, analyze_conversion and analyze_search_intent.      *)
(*                                                                         *)
(* Representation.                                                         *)
(*  - A DataFrame is a record [columns, rows]: the set of its column       *)
(*    names and the sequence of its rows.  pd.DataFrame([]) has no         *)
(*    columns, and selecting or grouping by a column that is not there     *)
(*    raises KeyError.                                                     *)
(*  - Queries and pages are numbered; the order of the numbers stands for  *)
(*    the lexicographic order of the strings.                              *)
(*  - A float that is a quotient (a mean, a change rate, a cvr) is kept    *)
(*    as an exact fraction [num, den] with den > 0; comparisons are made   *)
(*    by cross-multiplication.  Binary rounding is not modelled.           *)
(*  - ctr values are counted in units of 1/10000.                         *)
(*  - sort_values is called without kind=, i.e. with pandas' default       *)
(*    quicksort, which is documented as not stable: the order of rows      *)
(*    with equal keys is a nondeterministic choice.                        *)
(***************************************************************************)
EXTENDS Integers, Sequences, FiniteSets

VARIABLES
    pc,                \* position of the caller: "fetch", "analyze", "done"
    current_gsc,       \* DataFrame of the current period, or None
    comparison_gsc,    \* DataFrame of the comparison period, or None
    ga4_data,          \* DataFrame of analytics records, or None
    change_threshold,  \* argument of the last analyze_trends call
    min_clicks,        \* argument of the last analyze_trends call
    merged,            \* the merged table of the last analyze_trends call
    trend_data,        \* result of analyze_trends
    performance_data,  \* result of analyze_performance
    conversion_data,   \* result of analyze_conversion
    intent_data,       \* result of analyze_search_intent
    ga4_response,      \* rows of the last analytics report received
    ctr_threshold,     \* argument of the last analyze_search_intent call
    min_impressions,   \* argument of the last analyze_search_intent call
    trend_sort,        \* sort option applied to the trend view
    filtered_data,     \* the trend view as displayed
    session_state,     \* st.session_state: run settings, caches, search quota
    today,             \* datetime.now().date(), as a day number
    search_call,       \* what the last search_competitors_google call did
    fault,             \* exception that ended the last handler, or "none"
    message,           \* what the last article analysis reported
    saved_file         \* whether the last article analysis wrote its file

vars == <<pc, current_gsc, comparison_gsc, ga4_data, change_threshold, min_clicks,
          merged, trend_data, performance_data, conversion_data, intent_data,
          ga4_response, ctr_threshold, min_impressions, trend_sort, filtered_data,
          session_state, today, search_call, fault, message, saved_file>>

(***************************************************************************)
(* Bounds of the model.                                                    *)
(***************************************************************************)
NumQueries == 2
MaxRows == 3
MaxGa4Rows == 2
MaxPageRows == 2
MaxViewRows == 2

Queries == 1..NumQueries
Pages == {1}
ClickValues == {0, 5, 10}
ImpressionValues == {100}
CtrValues == {500}        \* in units of 1/10000
PositionValues == {3}

(***************************************************************************)
(* Sequence helpers.                                                       *)
(***************************************************************************)
RECURSIVE SeqsUpTo(_, _)
SeqsUpTo(S, n) ==
    IF n = 0 THEN {<<>>}
    ELSE LET shorter == SeqsUpTo(S, n - 1)
         IN  shorter \cup {Append(s, x) : s \in {t \in shorter : Len(t) = n - 1}, x \in S}

RECURSIVE SumSeq(_)
SumSeq(s) == IF s = <<>> THEN 0 ELSE Head(s) + SumSeq(Tail(s))

Column(rows, c) == [i \in DOMAIN rows |-> rows[i][c]]

Abs(x) == IF x < 0 THEN -x ELSE x

\* The bijections of 1..n.
Perms(n) == {p \in [1..n -> 1..n] : \A i, j \in 1..n : i # j => p[i] # p[j]}

Frac(n, d) == [num |-> n, den |-> d]
FracZero == Frac(0, 1)
FracLess(a, b) == a.num * b.den < b.num * a.den
FracEq(a, b) == a.num * b.den = b.num * a.den

(***************************************************************************)
(* DataFrames.                                                             *)
(***************************************************************************)
None == [columns |-> {"None"}, rows |-> <<>>]
EmptyFrame == [columns |-> {}, rows |-> <<>>]
NoResult == [status |-> "none", rows |-> <<>>]
KeyError == [status |-> "KeyError", rows |-> <<>>]
Ok(rows) == [status |-> "ok", rows |-> rows]
NoSort == [column |-> "none", ascending |-> FALSE]

GscColumns == {"query", "page", "clicks", "impressions", "ctr", "position"}

\* pd.DataFrame(data) for a list of dicts: no rows, no columns.
DataFrame(data, columns) ==
    IF data = <<>> THEN EmptyFrame ELSE [columns |-> columns, rows |-> data]

gsc_to_dataframe(response) ==
    DataFrame([i \in DOMAIN response |->
                  [query |-> response[i].query,
                   page |-> response[i].page,
                   clicks |-> response[i].clicks,
                   impressions |-> response[i].impressions,
                   ctr |-> response[i].ctr,
                   position |-> response[i].position]],
              GscColumns)

(***************************************************************************)
(* groupby(...).agg(...).reset_index(): one row per key, keys ascending.   *)
(***************************************************************************)
RECURSIVE SortedSeq(_)
SortedSeq(S) ==
    IF S = {} THEN <<>>
    ELSE LET m == CHOOSE x \in S : \A y \in S : x <= y
         IN  <<m>> \o SortedSeq(S \ {m})

QueryKeys(rows) == {rows[i].query : i \in DOMAIN rows}

RowsOfQuery(rows, q) == SelectSeq(rows, LAMBDA r : r.query = q)

Mean(values) == Frac(SumSeq(values), Len(values))

\* 'clicks': 'sum', 'impressions': 'sum', 'ctr': 'mean', 'position': 'mean', 'page': 'first'
\* variant: 'clicks': 'first'
current_summary_first_clicks(rows) ==
    LET keys == SortedSeq(QueryKeys(rows))
    IN  [k \in DOMAIN keys |->
            LET g == RowsOfQuery(rows, keys[k])
            IN  [query |-> keys[k],
                 clicks |-> g[1].clicks,
                 impressions |-> SumSeq(Column(g, "impressions")),
                 ctr |-> Mean(Column(g, "ctr")),
                 position |-> Mean(Column(g, "position")),
                 page |-> g[1].page]]

\* variant: 'page': 'last'
current_summary_last_page(rows) ==
    LET keys == SortedSeq(QueryKeys(rows))
    IN  [k \in DOMAIN keys |->
            LET g == RowsOfQuery(rows, keys[k])
            IN  [query |-> keys[k],
                 clicks |-> SumSeq(Column(g, "clicks")),
                 impressions |-> SumSeq(Column(g, "impressions")),
                 ctr |-> Mean(Column(g, "ctr")),
                 position |-> Mean(Column(g, "position")),
                 page |-> g[Len(g)].page]]

current_summary(rows) ==
    LET keys == SortedSeq(QueryKeys(rows))
    IN  [k \in DOMAIN keys |->
            LET g == RowsOfQuery(rows, keys[k])
            IN  [query |-> keys[k],
                 clicks |-> SumSeq(Column(g, "clicks")),
                 impressions |-> SumSeq(Column(g, "impressions")),
                 ctr |-> Mean(Column(g, "ctr")),
                 position |-> Mean(Column(g, "position")),
                 page |-> g[1].page]]

\* the same aggregation without 'page'
comparison_summary(rows) ==
    LET keys == SortedSeq(QueryKeys(rows))
    IN  [k \in DOMAIN keys |->
            LET g == RowsOfQuery(rows, keys[k])
            IN  [query |-> keys[k],
                 clicks |-> SumSeq(Column(g, "clicks")),
                 impressions |-> SumSeq(Column(g, "impressions")),
                 ctr |-> Mean(Column(g, "ctr")),
                 position |-> Mean(Column(g, "position"))]]

(***************************************************************************)
(* The change rate: the marker "新規" or a number.                         *)
(***************************************************************************)
NewMarker == [tag |-> "new", num |-> 0, den |-> 1]
Numeric(n, d) == [tag |-> "num", num |-> n, den |-> d]

\* variant: every row without comparison clicks is marked new
calculate_change_rate_always_new(row) ==
    IF row.clicks_comparison = 0
    THEN NewMarker
    ELSE Numeric(row.clicks_change * 100, row.clicks_comparison)

\* variant: the rate is taken relative to the current clicks
calculate_change_rate_of_current(row) ==
    IF row.clicks_comparison = 0
    THEN IF row.clicks_current > 0 THEN NewMarker ELSE Numeric(0, 1)
    ELSE IF row.clicks_current = 0 THEN Numeric(0, 1)
         ELSE Numeric(row.clicks_change * 100, row.clicks_current)

calculate_change_rate(row) ==
    IF row.clicks_comparison = 0
    THEN IF row.clicks_current > 0 THEN NewMarker ELSE Numeric(0, 1)
    ELSE Numeric(row.clicks_change * 100, row.clicks_comparison)

\* abs(rate) >= change_threshold, for a numeric rate with positive denominator
AbsRateAtLeast(rate, threshold) == Abs(rate.num) >= threshold * rate.den

\* variant: the clicks floor is not applied to numeric rates
is_significant_rate_only(row, threshold, floor) ==
    IF row.clicks_change_rate = NewMarker
    THEN row.clicks_current >= floor
    ELSE AbsRateAtLeast(row.clicks_change_rate, threshold)

\* variant: the magnitude bound is exclusive
is_significant_strict(row, threshold, floor) ==
    IF row.clicks_change_rate = NewMarker
    THEN row.clicks_current >= floor
    ELSE Abs(row.clicks_change_rate.num) > threshold * row.clicks_change_rate.den
         /\ row.clicks_current >= floor

\* variant: the marker is not branched on
is_significant_untagged(row, threshold, floor) ==
    AbsRateAtLeast(row.clicks_change_rate, threshold) /\ row.clicks_current >= floor

is_significant(row, threshold, floor) ==
    IF row.clicks_change_rate = NewMarker
    THEN row.clicks_current >= floor
    ELSE AbsRateAtLeast(row.clicks_change_rate, threshold) /\ row.clicks_current >= floor

(***************************************************************************)
(* pd.merge(current_summary, comparison_summary, on='query', how='outer')  *)
(* .fillna(0), then the clicks_change and clicks_change_rate columns.      *)
(***************************************************************************)
FindQuery(summary, q) == CHOOSE i \in DOMAIN summary : summary[i].query = q

\* variant: how='left'
merge_left(cur, cmp) ==
    LET keys == SortedSeq(QueryKeys(cur))
    IN  [k \in DOMAIN keys |->
            LET q == keys[k]
                inCmp == q \in QueryKeys(cmp)
                c == cur[FindQuery(cur, q)]
                p == cmp[FindQuery(cmp, q)]
            IN  [query |-> q,
                 page |-> c.page,
                 clicks_current |-> c.clicks,
                 impressions_current |-> c.impressions,
                 ctr_current |-> c.ctr,
                 position_current |-> c.position,
                 clicks_comparison |-> IF inCmp THEN p.clicks ELSE 0,
                 impressions_comparison |-> IF inCmp THEN p.impressions ELSE 0,
                 ctr_comparison |-> IF inCmp THEN p.ctr ELSE FracZero,
                 position_comparison |-> IF inCmp THEN p.position ELSE FracZero]]

merge_outer(cur, cmp) ==
    LET keys == SortedSeq(QueryKeys(cur) \cup QueryKeys(cmp))
    IN  [k \in DOMAIN keys |->
            LET q == keys[k]
                inCur == q \in QueryKeys(cur)
                inCmp == q \in QueryKeys(cmp)
                c == cur[FindQuery(cur, q)]
                p == cmp[FindQuery(cmp, q)]
            IN  [query |-> q,
                 page |-> IF inCur THEN c.page ELSE 0,
                 clicks_current |-> IF inCur THEN c.clicks ELSE 0,
                 impressions_current |-> IF inCur THEN c.impressions ELSE 0,
                 ctr_current |-> IF inCur THEN c.ctr ELSE FracZero,
                 position_current |-> IF inCur THEN c.position ELSE FracZero,
                 clicks_comparison |-> IF inCmp THEN p.clicks ELSE 0,
                 impressions_comparison |-> IF inCmp THEN p.impressions ELSE 0,
                 ctr_comparison |-> IF inCmp THEN p.ctr ELSE FracZero,
                 position_comparison |-> IF inCmp THEN p.position ELSE FracZero]]

WithChange(row) ==
    LET change == row.clicks_current - row.clicks_comparison
        r1 == [f \in DOMAIN row \cup {"clicks_change"} |->
                  IF f = "clicks_change" THEN change ELSE row[f]]
    IN  [f \in DOMAIN r1 \cup {"clicks_change_rate"} |->
            IF f = "clicks_change_rate" THEN calculate_change_rate(r1) ELSE r1[f]]

merged_table(current_df, comparison_df) ==
    LET m == merge_outer(current_summary(current_df.rows),
                         comparison_summary(comparison_df.rows))
    IN  [i \in DOMAIN m |-> WithChange(m[i])]

(***************************************************************************)
(* sort_values(column, ascending=False) with the default, unstable kind:   *)
(* every arrangement of the rows with non-increasing keys.                 *)
(***************************************************************************)
\* variant: ascending=True
SortAscending(rows, column) ==
    {[i \in DOMAIN rows |-> rows[p[i]]] :
        p \in {q \in Perms(Len(rows)) :
                 \A i, j \in DOMAIN rows : i < j => rows[q[i]][column] <= rows[q[j]][column]}}

SortDescending(rows, column) ==
    {[i \in DOMAIN rows |-> rows[p[i]]] :
        p \in {q \in Perms(Len(rows)) :
                 \A i, j \in DOMAIN rows : i < j => rows[q[i]][column] >= rows[q[j]][column]}}

\* groupby / column selection on a frame without the column
MissingColumn(df, names) == ~(names \subseteq df.columns)

\* The possible results of analyze_trends (the renaming of the columns is
\* not modelled: the rows keep the names of the merged table).
analyze_trends(current_df, comparison_df, threshold, floor) ==
    IF MissingColumn(current_df, GscColumns) \/ MissingColumn(comparison_df, GscColumns \ {"page"})
    THEN {KeyError}
    ELSE LET m == merged_table(current_df, comparison_df)
             significant == SelectSeq(m, LAMBDA row : is_significant(row, threshold, floor))
         IN  {Ok(s) : s \in SortDescending(significant, "clicks_change")}

(***************************************************************************)
(* analyze_performance: one roll-up row per period, current first.         *)
(***************************************************************************)
period_total(period, rows) ==
    [period |-> period,
     total_clicks |-> SumSeq(Column(rows, "clicks")),
     total_impressions |-> SumSeq(Column(rows, "impressions")),
     avg_ctr |-> Frac(SumSeq(Column(rows, "ctr")) * 100, Len(rows)),
     avg_position |-> Mean(Column(rows, "position")),
     unique_queries |-> Cardinality(QueryKeys(rows))]

\* variant: the comparison row is computed from the current frame
analyze_performance_same_frame(current_df, comparison_df) ==
    IF MissingColumn(current_df, {"clicks", "impressions", "ctr", "position", "query"})
       \/ MissingColumn(comparison_df, {"clicks", "impressions", "ctr", "position", "query"})
    THEN KeyError
    ELSE Ok(<<period_total("current", current_df.rows),
              period_total("comparison", current_df.rows)>>)

analyze_performance(current_df, comparison_df) ==
    IF MissingColumn(current_df, {"clicks", "impressions", "ctr", "position", "query"})
       \/ MissingColumn(comparison_df, {"clicks", "impressions", "ctr", "position", "query"})
    THEN KeyError
    ELSE Ok(<<period_total("current", current_df.rows),
              period_total("comparison", comparison_df.rows)>>)

(***************************************************************************)
(* analyze_search_intent: groups by (query, page), keys ascending.         *)
(***************************************************************************)
PairBefore(a, b) == a[1] < b[1] \/ (a[1] = b[1] /\ a[2] <= b[2])

RECURSIVE SortedPairs(_)
SortedPairs(S) ==
    IF S = {} THEN <<>>
    ELSE LET m == CHOOSE x \in S : \A y \in S : PairBefore(x, y)
         IN  <<m>> \o SortedPairs(S \ {m})

QueryPageKeys(rows) == {<<rows[i].query, rows[i].page>> : i \in DOMAIN rows}

page_summary(rows) ==
    LET keys == SortedPairs(QueryPageKeys(rows))
    IN  [k \in DOMAIN keys |->
            LET g == SelectSeq(rows, LAMBDA r : r.query = keys[k][1] /\ r.page = keys[k][2])
            IN  [query |-> keys[k][1],
                 page |-> keys[k][2],
                 clicks |-> SumSeq(Column(g, "clicks")),
                 impressions |-> SumSeq(Column(g, "impressions")),
                 ctr |-> Mean(Column(g, "ctr")),
                 position |-> Mean(Column(g, "position"))]]

\* variant: the ctr bound is inclusive
low_ctr_high_imp_inclusive(row, ctr_limit, floor) ==
    row.impressions >= floor /\ row.ctr.num <= ctr_limit * row.ctr.den

\* (impressions >= min_impressions) & (ctr < ctr_threshold); the threshold
\* is counted in units of 1/10000 like the ctr values.
low_ctr_high_imp(row, ctr_limit, floor) ==
    row.impressions >= floor /\ row.ctr.num < ctr_limit * row.ctr.den

\* low_ctr_high_imp['CTR'] * 100
ScaleCtr(row) == [row EXCEPT !.ctr = Frac(row.ctr.num * 100, row.ctr.den)]

\* variant: the ctr column is multiplied by 100 before the selection
analyze_search_intent_scaled_first(current_df, ctr_limit, floor) ==
    IF MissingColumn(current_df, GscColumns)
    THEN {KeyError}
    ELSE LET summary == page_summary(current_df.rows)
             scaled == [i \in DOMAIN summary |-> ScaleCtr(summary[i])]
             selected == SelectSeq(scaled, LAMBDA row : low_ctr_high_imp(row, ctr_limit, floor))
         IN  {Ok(r) : r \in SortDescending(selected, "impressions")}

analyze_search_intent(current_df, ctr_limit, floor) ==
    IF MissingColumn(current_df, GscColumns)
    THEN {KeyError}
    ELSE LET selected == SelectSeq(page_summary(current_df.rows),
                                   LAMBDA row : low_ctr_high_imp(row, ctr_limit, floor))
         IN  {Ok([i \in DOMAIN s |-> ScaleCtr(s[i])]) :
                 s \in SortDescending(selected, "impressions")}

(***************************************************************************)
(* ga4_to_dataframe.  Strings are sequences of characters; the metric      *)
(* values of a report row are decimal strings.                             *)
(***************************************************************************)
UpperCase == <<"A", "C", "G", "I", "N", "O", "R">>
LowerCase == <<"a", "c", "g", "i", "n", "o", "r">>

LowerChar(c) ==
    IF \E i \in DOMAIN UpperCase : UpperCase[i] = c
    THEN LowerCase[CHOOSE i \in DOMAIN UpperCase : UpperCase[i] = c]
    ELSE c

Lower(str) == [i \in DOMAIN str |-> LowerChar(str[i])]

Contains(str, sub) ==
    \E i \in 1..(Len(str) - Len(sub) + 1) : SubSeq(str, i, i + Len(sub) - 1) = sub

Organic == <<"o", "r", "g", "a", "n", "i", "c">>

RECURSIVE ParseInt(_)
ParseInt(digits) ==
    IF digits = <<>> THEN 0
    ELSE ParseInt(SubSeq(digits, 1, Len(digits) - 1)) * 10 + digits[Len(digits)]

RECURSIVE Pow10(_)
Pow10(n) == IF n = 0 THEN 1 ELSE 10 * Pow10(n - 1)

\* float("w.f") for a decimal string given as its whole and fractional digits
ParseFloat(dec) == Frac(ParseInt(dec.whole \o dec.frac), Pow10(Len(dec.frac)))

Ga4Columns == {"page_path", "source_medium", "sessions", "users", "bounce_rate",
               "avg_duration", "conversions", "cvr"}

\* variant: the division is not guarded
ga4_row_unguarded(row) ==
    LET sessions == ParseInt(row.sessions)
        conversions == ParseInt(row.conversions)
    IN  [page_path |-> row.page_path,
         source_medium |-> row.source_medium,
         sessions |-> sessions,
         users |-> ParseInt(row.users),
         bounce_rate |-> ParseFloat(row.bounce_rate),
         avg_duration |-> ParseFloat(row.avg_duration),
         conversions |-> conversions,
         cvr |-> Frac(conversions, sessions)]

ga4_row(row) ==
    LET sessions == ParseInt(row.sessions)
        conversions == ParseInt(row.conversions)
    IN  [page_path |-> row.page_path,
         source_medium |-> row.source_medium,
         sessions |-> sessions,
         users |-> ParseInt(row.users),
         bounce_rate |-> ParseFloat(row.bounce_rate),
         avg_duration |-> ParseFloat(row.avg_duration),
         conversions |-> conversions,
         cvr |-> IF sessions > 0 THEN Frac(conversions, sessions) ELSE FracZero]

\* variant: the case is not folded
is_organic_case_sensitive(row) == Contains(row.source_medium, Organic)

is_organic(row) == Contains(Lower(row.source_medium), Organic)

ga4_to_dataframe(response) ==
    LET kept == SelectSeq(response, is_organic)
    IN  DataFrame([i \in DOMAIN kept |-> ga4_row(kept[i])], Ga4Columns)

(***************************************************************************)
(* analyze_conversion.                                                     *)
(***************************************************************************)
MinSessions == 10

\* variant: the floor is exclusive
enough_sessions_strict(row) == row.sessions > MinSessions

enough_sessions(row) == row.sessions >= MinSessions

\* variant: ascending=True
SortByCvrAscending(rows) ==
    {[i \in DOMAIN rows |-> rows[p[i]]] :
        p \in {q \in Perms(Len(rows)) :
                 \A i, j \in DOMAIN rows :
                     i < j => ~FracLess(rows[q[j]].cvr, rows[q[i]].cvr)}}

\* sort_values('cvr', ascending=False), default kind
SortByCvr(rows) ==
    {[i \in DOMAIN rows |-> rows[p[i]]] :
        p \in {q \in Perms(Len(rows)) :
                 \A i, j \in DOMAIN rows :
                     i < j => ~FracLess(rows[q[i]].cvr, rows[q[j]].cvr)}}

\* variant: without the guard for None and empty input
analyze_conversion_unguarded(ga4_df) ==
    IF MissingColumn(ga4_df, {"sessions", "cvr"})
    THEN {KeyError}
    ELSE {Ok(r) : r \in SortByCvr(SelectSeq(ga4_df.rows, enough_sessions))}

analyze_conversion(ga4_df) ==
    IF ga4_df = None \/ Len(ga4_df.rows) = 0
    THEN {Ok(<<>>)}
    ELSE {Ok(s) : s \in SortByCvr(SelectSeq(ga4_df.rows, enough_sessions))}

(***************************************************************************)
(* Inputs.                                                                 *)
(***************************************************************************)
GscRows == [query : Queries, page : Pages, clicks : ClickValues,
            impressions : ImpressionValues, ctr : CtrValues, position : PositionValues]

GscResponses == SeqsUpTo(GscRows, MaxRows)

ChangeThresholds == {0, 50, 100}
MinClicksValues == {0, 5}
CtrThresholds == {500, 1000}
MinImpressionsValues == {100}

GoogleOrganic == <<"g", "o", "o", "g", "l", "e", " ", "/", " ", "o", "r", "g", "a", "n", "i", "c">>
BingOrganicUpper == <<"b", "i", "n", "g", " ", "/", " ", "O", "R", "G", "A", "N", "I", "C">>
DirectNone == <<"(", "d", "i", "r", "e", "c", "t", ")", " ", "/", " ", "(", "n", "o", "n", "e", ")">>

SourceMedia == {GoogleOrganic, BingOrganicUpper, DirectNone}
SessionStrings == {<<0>>, <<9>>, <<1, 0>>, <<2, 0>>}
ConversionStrings == {<<0>>, <<9>>}

Ga4Rows == [page_path : {1}, source_medium : SourceMedia, sessions : SessionStrings,
            users : {<<7>>}, bounce_rate : {[whole |-> <<0>>, frac |-> <<5>>]},
            avg_duration : {[whole |-> <<4, 2>>, frac |-> <<2, 5>>]},
            conversions : ConversionStrings]

Ga4Responses == SeqsUpTo(Ga4Rows, MaxGa4Rows)

(***************************************************************************)
(* st.session_state.  Dates are day numbers.  A key the code has not set   *)
(* yet holds a zero value here; run_analysis tells whether the settings of *)
(* a run were stored.  A dict is a function on the set of its keys.        *)
(***************************************************************************)
InitialSessionState ==
    [run_analysis |-> FALSE,
     period_mode |-> "simple",
     analysis_current_start |-> 0,
     analysis_current_end |-> 0,
     analysis_comparison_start |-> 0,
     analysis_comparison_end |-> 0,
     days_ago |-> 0,
     change_threshold |-> 0,
     min_clicks |-> 0,
     ctr_threshold |-> 0,
     min_impressions |-> 0,
     data_cache |-> <<>>,
     analysis_results_cache |-> <<>>,
     article_analyses |-> <<>>,
     daily_queries |-> 0,
     query_date |-> 0,
     payment_approved |-> FALSE]

\* search_call: whether a request was issued, what was returned ("none" when
\* no call was made, "empty" for [], "items"), and the error reported
NoCall == [issued |-> FALSE, returned |-> "none", error |-> "none"]

\* d[k] = v
Put(d, k, v) == [x \in DOMAIN d \cup {k} |-> IF x = k THEN v ELSE d[x]]

(***************************************************************************)
(* Period settings of the sidebar.                                         *)
(***************************************************************************)
\* "シンプル" mode: the slider gives days_ago
simple_period(now, days_ago) ==
    LET current_end == now
        current_start == current_end - days_ago
        comparison_end == current_start - 1
        comparison_start == comparison_end - days_ago
    IN  [period_mode |-> "simple",
         current_start |-> current_start,
         current_end |-> current_end,
         comparison_start |-> comparison_start,
         comparison_end |-> comparison_end,
         days_ago |-> days_ago]

ComparisonPresets == {"previous", "1_month", "3_months", "6_months", "1_year"}

\* "詳細設定" mode with a preset of the comparison period
preset_period(current_start, current_end, comparison_preset) ==
    LET period_days == current_end - current_start
        shift == CASE comparison_preset = "1_month" -> 30
                   [] comparison_preset = "3_months" -> 90
                   [] comparison_preset = "6_months" -> 180
                   [] OTHER -> 365
    IN  [period_mode |-> "detail",
         current_start |-> current_start,
         current_end |-> current_end,
         comparison_start |-> IF comparison_preset = "previous"
                              THEN (current_start - 1) - period_days
                              ELSE current_start - shift,
         comparison_end |-> IF comparison_preset = "previous"
                            THEN current_start - 1
                            ELSE current_end - shift,
         days_ago |-> period_days]

\* "詳細設定" mode with "カスタム": both dates of the comparison period are
\* date inputs with max_value = current_start - 1
custom_period(current_start, current_end, comparison_start, comparison_end) ==
    [period_mode |-> "detail",
     current_start |-> current_start,
     current_end |-> current_end,
     comparison_start |-> comparison_start,
     comparison_end |-> comparison_end,
     days_ago |-> current_end - current_start]

\* values of the widgets
AnalysisDays == {7, 30}
CurrentStarts(now) == {now - 30}
CustomStarts(current_start) == {current_start - 60}
CustomEnds(current_start) == {current_start - 31, current_start - 1}

PeriodSettings(now) ==
    {simple_period(now, n) : n \in AnalysisDays}
    \cup {preset_period(cs, now, preset) :
             cs \in CurrentStarts(now), preset \in ComparisonPresets}
    \cup UNION {{custom_period(cs, now, s, e) :
                    s \in CustomStarts(cs), e \in CustomEnds(cs)} :
                cs \in CurrentStarts(now)}

\* change_threshold, min_clicks, ctr_threshold (1/10000), min_impressions
ThresholdSettings ==
    {[change_threshold |-> 10, min_clicks |-> 1, ctr_threshold |-> 500, min_impressions |-> 100],
     [change_threshold |-> 200, min_clicks |-> 50, ctr_threshold |-> 2000, min_impressions |-> 1000]}

(***************************************************************************)
(* The search-performance service: what a searchanalytics query returns    *)
(* for a date range.  The site has the queries of Queries; query 1 is      *)
(* clicked once a day, the other queries once a day since day -30; every   *)
(* query is shown 10 times a day.                                          *)
(***************************************************************************)
\* clicks of query q on the days start..end
RangeClicks(q, start, end) ==
    LET first == IF q = 1 \/ start >= -30 THEN start ELSE -30
    IN  IF first > end THEN 0 ELSE end - first + 1

SearchAnalytics(start, end) ==
    [q \in Queries |->
        LET days == end - start + 1
            clicks == RangeClicks(q, start, end)
            impressions == 10 * days
        IN  [query |-> q, page |-> 1, clicks |-> clicks, impressions |-> impressions,
             ctr |-> (clicks * 10000) \div impressions, position |-> 3]]

(***************************************************************************)
(* State machine of one analysis of the search-performance data.           *)
(***************************************************************************)
Init ==
    /\ pc = "fetch"
    /\ current_gsc = None
    /\ comparison_gsc = None
    /\ ga4_data = None
    /\ change_threshold = 50
    /\ min_clicks = 5
    /\ merged = <<>>
    /\ trend_data = NoResult
    /\ performance_data = NoResult
    /\ conversion_data = NoResult
    /\ intent_data = NoResult
    /\ ga4_response = <<>>
    /\ ctr_threshold = 500
    /\ min_impressions = 100
    /\ trend_sort = NoSort
    /\ filtered_data = NoResult
    /\ session_state = InitialSessionState
    /\ today = 0
    /\ search_call = NoCall
    /\ fault = "none"
    /\ message = "none"
    /\ saved_file = FALSE

\* get_gsc_data: both responses arrive and are converted.
GetGscData ==
    /\ pc = "fetch"
    /\ \E cur \in GscResponses, cmp \in GscResponses :
          /\ Len(cur) + Len(cmp) <= MaxRows
          /\ current_gsc' = gsc_to_dataframe(cur)
          /\ comparison_gsc' = gsc_to_dataframe(cmp)
    /\ pc' = "analyze"
    /\ UNCHANGED <<ga4_data, change_threshold, min_clicks, merged, trend_data,
                   performance_data, conversion_data, intent_data,
                   ga4_response, ctr_threshold, min_impressions, trend_sort, filtered_data>>
    /\ UNCHANGED <<session_state, today, search_call, fault, message, saved_file>>

\* get_gsc_data: the service cannot be initialised or a request raises.
GetGscDataFails ==
    /\ pc = "fetch"
    /\ current_gsc' = None
    /\ comparison_gsc' = None
    /\ pc' = "stopped"
    /\ UNCHANGED <<ga4_data, change_threshold, min_clicks, merged, trend_data,
                   performance_data, conversion_data, intent_data,
                   ga4_response, ctr_threshold, min_impressions, trend_sort, filtered_data>>
    /\ UNCHANGED <<session_state, today, search_call, fault, message, saved_file>>

AnalyzeTrends ==
    /\ pc = "analyze"
    /\ \E threshold \in ChangeThresholds, floor \in MinClicksValues :
          /\ change_threshold' = threshold
          /\ min_clicks' = floor
          /\ trend_data' \in analyze_trends(current_gsc, comparison_gsc, threshold, floor)
          /\ merged' = IF trend_data'.status = "ok"
                       THEN merged_table(current_gsc, comparison_gsc)
                       ELSE <<>>
    /\ pc' = "done"
    /\ UNCHANGED <<current_gsc, comparison_gsc, ga4_data,
                   performance_data, conversion_data, intent_data,
                   ga4_response, ctr_threshold, min_impressions, trend_sort, filtered_data>>
    /\ UNCHANGED <<session_state, today, search_call, fault, message, saved_file>>

AnalyzePerformance ==
    /\ pc = "analyze"
    /\ performance_data' = analyze_performance(current_gsc, comparison_gsc)
    /\ pc' = "done"
    /\ UNCHANGED <<current_gsc, comparison_gsc, ga4_data, change_threshold, min_clicks,
                   merged, trend_data, conversion_data, intent_data,
                   ga4_response, ctr_threshold, min_impressions, trend_sort, filtered_data>>
    /\ UNCHANGED <<session_state, today, search_call, fault, message, saved_file>>

AnalyzeSearchIntent ==
    /\ pc = "analyze"
    /\ \E ctr_limit \in CtrThresholds, floor \in MinImpressionsValues :
          /\ ctr_threshold' = ctr_limit
          /\ min_impressions' = floor
          /\ intent_data' \in analyze_search_intent(current_gsc, ctr_limit, floor)
    /\ pc' = "done"
    /\ UNCHANGED <<current_gsc, comparison_gsc, ga4_data, change_threshold, min_clicks,
                   merged, trend_data, performance_data, conversion_data,
                   ga4_response, trend_sort, filtered_data>>
    /\ UNCHANGED <<session_state, today, search_call, fault, message, saved_file>>

Next ==
    \/ GetGscData
    \/ GetGscDataFails
    \/ AnalyzeTrends
    \/ AnalyzePerformance
    \/ AnalyzeSearchIntent

Spec == Init /\ [][Next]_vars

(***************************************************************************)
(* The same analysis on records that differ in page, impressions and ctr.  *)
(***************************************************************************)
PageRows == [query : Queries, page : {1, 2}, clicks : {5},
             impressions : {50, 100}, ctr : {499, 500}, position : {3}]

PageComparisonRows == [query : Queries, page : {1}, clicks : {5},
                       impressions : {100}, ctr : {500}, position : {3}]

GetGscDataPages ==
    /\ pc = "fetch"
    /\ \E cur \in SeqsUpTo(PageRows, MaxPageRows), cmp \in SeqsUpTo(PageComparisonRows, 1) :
          /\ current_gsc' = gsc_to_dataframe(cur)
          /\ comparison_gsc' = gsc_to_dataframe(cmp)
    /\ pc' = "analyze"
    /\ UNCHANGED <<ga4_data, change_threshold, min_clicks, merged, trend_data,
                   performance_data, conversion_data, intent_data,
                   ga4_response, ctr_threshold, min_impressions, trend_sort, filtered_data>>
    /\ UNCHANGED <<session_state, today, search_call, fault, message, saved_file>>

NextPages ==
    \/ GetGscDataPages
    \/ AnalyzeTrends
    \/ AnalyzePerformance
    \/ AnalyzeSearchIntent

SpecPages == Init /\ [][NextPages]_vars

(***************************************************************************)
(* The trend tab: keyword search and sort of the trend view.  The columns  *)
(* keep the names of the merged table ("クリック数変化" is clicks_change,   *)
(* "変化率(%)" clicks_change_rate, "現在期間_クリック数" clicks_current,     *)
(* "現在期間_表示回数" impressions_current, "現在期間_CTR" ctr_current,      *)
(* "現在期間_平均順位" position_current).                                   *)
(***************************************************************************)
sort_options ==
    {[column |-> "clicks_change", ascending |-> FALSE],
     [column |-> "clicks_change", ascending |-> TRUE],
     [column |-> "clicks_change_rate", ascending |-> FALSE],
     [column |-> "clicks_change_rate", ascending |-> TRUE],
     [column |-> "clicks_current", ascending |-> FALSE],
     [column |-> "clicks_current", ascending |-> TRUE],
     [column |-> "impressions_current", ascending |-> FALSE],
     [column |-> "impressions_current", ascending |-> TRUE],
     [column |-> "ctr_current", ascending |-> FALSE],
     [column |-> "ctr_current", ascending |-> TRUE],
     [column |-> "position_current", ascending |-> TRUE],
     [column |-> "position_current", ascending |-> FALSE]}

\* lambda x: 999999 if x == "新規" else x
NewSortKey == 999999

sort_key(rate) == IF rate = NewMarker THEN Frac(NewSortKey, 1) ELSE Frac(rate.num, rate.den)

\* the value a row is sorted by, as a fraction
SortValue(row, column) ==
    IF column = "clicks_change_rate" THEN sort_key(row.clicks_change_rate)
    ELSE IF column \in {"ctr_current", "position_current"} THEN row[column]
    ELSE Frac(row[column], 1)

\* sort_values(by=..., ascending=ascending), default kind
SortView(rows, column, ascending) ==
    {[i \in DOMAIN rows |-> rows[p[i]]] :
        p \in {q \in Perms(Len(rows)) :
                 \A i, j \in DOMAIN rows :
                     i < j =>
                         IF ascending
                         THEN ~FracLess(SortValue(rows[q[j]], column), SortValue(rows[q[i]], column))
                         ELSE ~FracLess(SortValue(rows[q[i]], column), SortValue(rows[q[j]], column))}}

\* A search keyword is given by the set of queries that contain it; no
\* keyword leaves the view unfiltered.
NoKeyword == [given |-> FALSE, matches |-> {}]
SearchKeywords == {NoKeyword} \cup {[given |-> TRUE, matches |-> m] : m \in SUBSET Queries}

KeywordFilter(rows, keyword) ==
    IF keyword.given
    THEN SelectSeq(rows, LAMBDA row : row.query \in keyword.matches)
    ELSE rows

ViewRows == [query : Queries, page : {1}, clicks : {1, 10001},
             impressions : {100}, ctr : {500}, position : {3}]

ViewComparisonRows == [query : Queries, page : {1}, clicks : {0, 1},
                       impressions : {100}, ctr : {500}, position : {3}]

GetGscDataView ==
    /\ pc = "fetch"
    /\ \E cur \in SeqsUpTo(ViewRows, MaxViewRows), cmp \in SeqsUpTo(ViewComparisonRows, 1) :
          /\ current_gsc' = gsc_to_dataframe(cur)
          /\ comparison_gsc' = gsc_to_dataframe(cmp)
    /\ pc' = "analyze"
    /\ UNCHANGED <<ga4_data, change_threshold, min_clicks, merged, trend_data,
                   performance_data, conversion_data, intent_data,
                   ga4_response, ctr_threshold, min_impressions, trend_sort, filtered_data>>
    /\ UNCHANGED <<session_state, today, search_call, fault, message, saved_file>>

\* The trend tab with an analysis text present: filter by keyword, then sort
\* by the selected option.
SortTrendView ==
    /\ pc = "done"
    /\ trend_data.status = "ok"
    /\ \E option \in sort_options, keyword \in SearchKeywords :
          /\ trend_sort' = option
          /\ filtered_data' \in
                {Ok(r) : r \in SortView(KeywordFilter(trend_data.rows, keyword),
                                        option.column, option.ascending)}
    /\ pc' = "shown"
    /\ UNCHANGED <<current_gsc, comparison_gsc, ga4_data, change_threshold, min_clicks,
                   merged, trend_data, performance_data, conversion_data, intent_data,
                   ga4_response, ctr_threshold, min_impressions>>
    /\ UNCHANGED <<session_state, today, search_call, fault, message, saved_file>>

NextView ==
    \/ GetGscDataView
    \/ AnalyzeTrends
    \/ SortTrendView

SpecView == Init /\ [][NextView]_vars

(***************************************************************************)
(* State machine of one analysis of the analytics data.                    *)
(***************************************************************************)
\* get_ga4_data: the report arrives and is converted.
GetGa4Data ==
    /\ pc = "fetch"
    /\ \E response \in Ga4Responses :
          /\ ga4_response' = response
          /\ ga4_data' = ga4_to_dataframe(response)
    /\ pc' = "analyze_ga4"
    /\ UNCHANGED <<current_gsc, comparison_gsc, change_threshold, min_clicks, merged,
                   trend_data, performance_data, conversion_data, intent_data,
                   ctr_threshold, min_impressions, trend_sort, filtered_data>>
    /\ UNCHANGED <<session_state, today, search_call, fault, message, saved_file>>

\* get_ga4_data: no property id, or the services cannot be initialised.
GetGa4DataUnset ==
    /\ pc = "fetch"
    /\ ga4_data' = EmptyFrame
    /\ pc' = "analyze_ga4"
    /\ UNCHANGED <<current_gsc, comparison_gsc, change_threshold, min_clicks, merged,
                   trend_data, performance_data, conversion_data, intent_data,
                   ga4_response, ctr_threshold, min_impressions, trend_sort, filtered_data>>
    /\ UNCHANGED <<session_state, today, search_call, fault, message, saved_file>>

\* get_ga4_data: the request raises.
GetGa4DataFails ==
    /\ pc = "fetch"
    /\ ga4_data' = None
    /\ pc' = "analyze_ga4"
    /\ UNCHANGED <<current_gsc, comparison_gsc, change_threshold, min_clicks, merged,
                   trend_data, performance_data, conversion_data, intent_data,
                   ga4_response, ctr_threshold, min_impressions, trend_sort, filtered_data>>
    /\ UNCHANGED <<session_state, today, search_call, fault, message, saved_file>>

AnalyzeConversion ==
    /\ pc = "analyze_ga4"
    /\ conversion_data' \in analyze_conversion(ga4_data)
    /\ pc' = "done"
    /\ UNCHANGED <<current_gsc, comparison_gsc, ga4_data, change_threshold, min_clicks,
                   merged, trend_data, performance_data, intent_data,
                   ga4_response, ctr_threshold, min_impressions, trend_sort, filtered_data>>
    /\ UNCHANGED <<session_state, today, search_call, fault, message, saved_file>>

NextConversion ==
    \/ GetGa4Data
    \/ GetGa4DataUnset
    \/ GetGa4DataFails
    \/ AnalyzeConversion

SpecConversion == Init /\ [][NextConversion]_vars

(***************************************************************************)
(* The run button and the main screen: session cache of the fetched data   *)
(* and of the analysis results.                                            *)
(***************************************************************************)
MaxCacheEntries == 1

SiteName == "site"

\* the run button stores the widgets' values
StoreRun(st, period, thresholds) ==
    [st EXCEPT !.run_analysis = TRUE,
               !.period_mode = period.period_mode,
               !.analysis_current_start = period.current_start,
               !.analysis_current_end = period.current_end,
               !.analysis_comparison_start = period.comparison_start,
               !.analysis_comparison_end = period.comparison_end,
               !.days_ago = period.days_ago,
               !.change_threshold = thresholds.change_threshold,
               !.min_clicks = thresholds.min_clicks,
               !.ctr_threshold = thresholds.ctr_threshold,
               !.min_impressions = thresholds.min_impressions]

\* f"{site['name']}_{analysis_current_start}_{analysis_current_end}"
cache_key(st) == <<SiteName, st.analysis_current_start, st.analysis_current_end>>

\* get_gsc_data for the stored periods: (None, None) when a request raises
get_gsc_data(st, succeeds) ==
    IF succeeds
    THEN [current_gsc |-> gsc_to_dataframe(SearchAnalytics(st.analysis_current_start,
                                                           st.analysis_current_end)),
          comparison_gsc |-> gsc_to_dataframe(SearchAnalytics(st.analysis_comparison_start,
                                                              st.analysis_comparison_end))]
    ELSE [current_gsc |-> None, comparison_gsc |-> None]

\* variant: the entry is stored before the result is looked at
data_cache_stored_first(cache, key, gsc, ga4) ==
    Put(cache, key, [current_gsc |-> gsc.current_gsc,
                     comparison_gsc |-> gsc.comparison_gsc,
                     ga4_data |-> ga4])

\* the data cache after a fetch for a missing key: st.stop() on a failed
\* fetch comes before the entry is stored
data_cache_after_fetch(cache, key, gsc, ga4) ==
    IF gsc.current_gsc = None
    THEN cache
    ELSE Put(cache, key, [current_gsc |-> gsc.current_gsc,
                          comparison_gsc |-> gsc.comparison_gsc,
                          ga4_data |-> ga4])

\* the possible entries of the analysis results cache for the cached data
\* and the stored thresholds
analysis_results(st, data) ==
    {[trend_data |-> t,
      performance_data |-> analyze_performance(data.current_gsc, data.comparison_gsc),
      conversion_data |-> c,
      intent_data |-> i] :
        t \in analyze_trends(data.current_gsc, data.comparison_gsc,
                             st.change_threshold, st.min_clicks),
        c \in analyze_conversion(data.ga4_data),
        i \in analyze_search_intent(data.current_gsc, st.ctr_threshold, st.min_impressions)}

Raised(results) ==
    \/ results.trend_data = KeyError
    \/ results.performance_data = KeyError
    \/ results.intent_data = KeyError

\* One run of the script below the sidebar with the session state st: fetch
\* on a missing key, analyse on a missing key, read both caches.
MainScreen(st, gsc_succeeds, ga4) ==
    LET key == cache_key(st)
        fetched == get_gsc_data(st, gsc_succeeds)
        data_cache == IF key \in DOMAIN st.data_cache
                      THEN st.data_cache
                      ELSE data_cache_after_fetch(st.data_cache, key, fetched, ga4)
    IN  IF key \notin DOMAIN data_cache
        THEN \* st.stop()
             /\ session_state' = st
             /\ current_gsc' = None
             /\ comparison_gsc' = None
             /\ pc' = "stopped"
             /\ fault' = "none"
             /\ UNCHANGED <<ga4_data, change_threshold, min_clicks, ctr_threshold,
                            min_impressions, merged, trend_data, performance_data,
                            conversion_data, intent_data>>
        ELSE LET cached_data == data_cache[key]
                 st2 == [st EXCEPT !.data_cache = data_cache]
             IN  /\ current_gsc' = cached_data.current_gsc
                 /\ comparison_gsc' = cached_data.comparison_gsc
                 /\ ga4_data' = cached_data.ga4_data
                 /\ IF key \in DOMAIN st.analysis_results_cache
                    THEN LET cached_results == st.analysis_results_cache[key]
                         IN  /\ session_state' = st2
                             /\ trend_data' = cached_results.trend_data
                             /\ performance_data' = cached_results.performance_data
                             /\ conversion_data' = cached_results.conversion_data
                             /\ intent_data' = cached_results.intent_data
                             /\ pc' = "done"
                             /\ fault' = "none"
                             /\ UNCHANGED <<change_threshold, min_clicks, ctr_threshold,
                                            min_impressions, merged>>
                    ELSE \E results \in analysis_results(st, cached_data) :
                             /\ change_threshold' = st.change_threshold
                             /\ min_clicks' = st.min_clicks
                             /\ ctr_threshold' = st.ctr_threshold
                             /\ min_impressions' = st.min_impressions
                             /\ trend_data' = results.trend_data
                             /\ performance_data' = results.performance_data
                             /\ conversion_data' = results.conversion_data
                             /\ intent_data' = results.intent_data
                             /\ merged' = IF results.trend_data.status = "ok"
                                          THEN merged_table(cached_data.current_gsc,
                                                            cached_data.comparison_gsc)
                                          ELSE <<>>
                             /\ IF Raised(results)
                                THEN /\ session_state' = st2
                                     /\ pc' = "stopped"
                                     /\ fault' = "KeyError"
                                ELSE /\ session_state' =
                                            [st2 EXCEPT !.analysis_results_cache =
                                                Put(st.analysis_results_cache, key, results)]
                                     /\ pc' = "done"
                                     /\ fault' = "none"

\* get_ga4_data for a site without ga4_property_id
Ga4Unset == EmptyFrame

\* "📊 分析実行": store the settings, then the main screen
RunAnalysis ==
    /\ \E period \in PeriodSettings(today), thresholds \in ThresholdSettings,
          gsc_succeeds \in BOOLEAN :
          LET st == StoreRun(session_state, period, thresholds)
          IN  /\ cache_key(st) \in DOMAIN st.data_cache => gsc_succeeds
              /\ MainScreen(st, gsc_succeeds, Ga4Unset)
    /\ Cardinality(DOMAIN session_state'.data_cache) <= MaxCacheEntries
    /\ UNCHANGED <<ga4_response, trend_sort, filtered_data, today, search_call, message, saved_file>>

\* any other interaction runs the script again with the stored settings
Rerun ==
    /\ session_state.run_analysis
    /\ \E gsc_succeeds \in BOOLEAN :
          /\ cache_key(session_state) \in DOMAIN session_state.data_cache => gsc_succeeds
          /\ MainScreen(session_state, gsc_succeeds, Ga4Unset)
    /\ Cardinality(DOMAIN session_state'.data_cache) <= MaxCacheEntries
    /\ UNCHANGED <<ga4_response, trend_sort, filtered_data, today, search_call, message, saved_file>>

NextSession ==
    \/ RunAnalysis
    \/ Rerun

SpecSession == Init /\ [][NextSession]_vars

(***************************************************************************)
(* search_competitors_google and the daily quota of the custom-search API. *)
(***************************************************************************)
FreeQuota == 100

MaxDays == 1
MaxPaidQueries == 1
MaxAnalyses == 1

\* configuration and service: no API key, the request raises, a response
\* without items, a response with items
SearchOutcomes == {"no_key", "raises", "no_items", "items"}

\* "日付が変わったらリセット"
reset_daily_queries(st, now) ==
    IF st.query_date # now
    THEN [st EXCEPT !.daily_queries = 0, !.query_date = now]
    ELSE st

\* variant: the bound is exclusive
over_quota_exclusive(st) == st.daily_queries > FreeQuota /\ ~st.payment_approved

\* daily_queries >= 100 and not payment_approved
over_quota(st) == st.daily_queries >= FreeQuota /\ ~st.payment_approved

\* The session state after the call and what the call did.
search_competitors_google(st, now, outcome) ==
    LET st0 == reset_daily_queries(st, now)
    IN  IF over_quota(st0)
        THEN [session_state |-> st0,
              call |-> [issued |-> FALSE, returned |-> "empty", error |-> "quota"]]
        ELSE IF outcome = "no_key"
        THEN [session_state |-> st0,
              call |-> [issued |-> FALSE, returned |-> "empty", error |-> "no_key"]]
        ELSE IF outcome = "raises"
        THEN [session_state |-> st0,
              call |-> [issued |-> TRUE, returned |-> "empty", error |-> "exception"]]
        ELSE [session_state |-> [st0 EXCEPT !.daily_queries = @ + 1],
              call |-> [issued |-> TRUE,
                        returned |-> IF outcome = "items" THEN "items" ELSE "empty",
                        error |-> "none"]]

SearchCompetitorsGoogle ==
    /\ \E outcome \in SearchOutcomes :
          LET r == search_competitors_google(session_state, today, outcome)
          IN  /\ r.session_state.daily_queries <= FreeQuota + MaxPaidQueries
              /\ session_state' = r.session_state
              /\ search_call' = r.call
    /\ UNCHANGED <<pc, current_gsc, comparison_gsc, ga4_data, change_threshold, min_clicks,
                   merged, trend_data, performance_data, conversion_data, intent_data,
                   ga4_response, ctr_threshold, min_impressions, trend_sort, filtered_data,
                   today, fault, message, saved_file>>

\* "課金を承認して続行" in the expander of the quota error
ApprovePayment ==
    /\ search_call.error = "quota"
    /\ session_state' = [session_state EXCEPT !.payment_approved = TRUE]
    /\ search_call' = NoCall
    /\ UNCHANGED <<pc, current_gsc, comparison_gsc, ga4_data, change_threshold, min_clicks,
                   merged, trend_data, performance_data, conversion_data, intent_data,
                   ga4_response, ctr_threshold, min_impressions, trend_sort, filtered_data,
                   today, fault, message, saved_file>>

\* the calendar date changes
NextDay ==
    /\ today < MaxDays
    /\ today' = today + 1
    /\ search_call' = NoCall
    /\ UNCHANGED <<pc, current_gsc, comparison_gsc, ga4_data, change_threshold, min_clicks,
                   merged, trend_data, performance_data, conversion_data, intent_data,
                   ga4_response, ctr_threshold, min_impressions, trend_sort, filtered_data,
                   session_state, fault, message, saved_file>>

NextSearch ==
    \/ SearchCompetitorsGoogle
    \/ ApprovePayment
    \/ NextDay

SpecSearch == Init /\ [][NextSearch]_vars

(***************************************************************************)
(* The analysis button of a row in the trend tab and in the intent tab     *)
(* (the two handlers are the same code).                                   *)
(***************************************************************************)
AnalysisModes == {"basic", "competitive"}

\* "分析実行" of a displayed row
ArticleAnalysis ==
    /\ \E analysis_mode \in AnalysisModes, content_success \in BOOLEAN,
          outcome \in SearchOutcomes :
          IF ~content_success
          THEN /\ message' = "content_error"
               /\ fault' = "none"
               /\ search_call' = NoCall
               /\ saved_file' = FALSE
               /\ UNCHANGED session_state
          ELSE IF analysis_mode = "competitive" /\ over_quota(session_state)
          THEN \* st.error, then the record is built from the unbound analysis
               /\ message' = "quota_exceeded"
               /\ fault' = "UnboundLocalError"
               /\ search_call' = NoCall
               /\ saved_file' = FALSE
               /\ UNCHANGED session_state
          ELSE LET r == IF analysis_mode = "competitive"
                        THEN search_competitors_google(session_state, today, outcome)
                        ELSE [session_state |-> session_state, call |-> NoCall]
               IN  /\ Len(session_state.article_analyses) < MaxAnalyses
                   /\ r.session_state.daily_queries <= FreeQuota + MaxPaidQueries
                   /\ session_state' =
                         [r.session_state EXCEPT !.article_analyses =
                             Append(@, [keyword |-> 1, mode |-> analysis_mode])]
                   /\ search_call' = r.call
                   /\ saved_file' = TRUE
                   /\ message' = "completed"
                   /\ fault' = "none"
    /\ UNCHANGED <<pc, current_gsc, comparison_gsc, ga4_data, change_threshold, min_clicks,
                   merged, trend_data, performance_data, conversion_data, intent_data,
                   ga4_response, ctr_threshold, min_impressions, trend_sort, filtered_data,
                   today>>

\* "全履歴クリア"
ClearAnalyses ==
    /\ session_state.article_analyses # <<>>
    /\ session_state' = [session_state EXCEPT !.article_analyses = <<>>]
    /\ message' = "none"
    /\ fault' = "none"
    /\ search_call' = NoCall
    /\ saved_file' = FALSE
    /\ UNCHANGED <<pc, current_gsc, comparison_gsc, ga4_data, change_threshold, min_clicks,
                   merged, trend_data, performance_data, conversion_data, intent_data,
                   ga4_response, ctr_threshold, min_impressions, trend_sort, filtered_data,
                   today>>

NextArticle ==
    \/ ArticleAnalysis
    \/ ClearAnalyses
    \/ NextDay

SpecArticle == Init /\ [][NextArticle]_vars

(***************************************************************************)
(* Properties of analyze_trends.  They speak about the state after the     *)
(* call: merged is the table the call built, trend_data its result, and    *)
(* change_threshold and min_clicks are the arguments it was given.         *)
(***************************************************************************)
TrendsReturned == pc = "done" /\ trend_data.status = "ok"

CurrentClicksOf(q) == SumSeq(Column(RowsOfQuery(current_gsc.rows, q), "clicks"))

InTrendData(row) == \E j \in DOMAIN trend_data.rows : trend_data.rows[j] = row

\* C1: in every merged row the change rate is the new marker when the
\* comparison clicks are 0 and the current clicks positive, the number 0 when
\* both are 0, and (current - comparison) / comparison * 100 otherwise.
C1_ChangeRateRule ==
    \A i \in DOMAIN merged :
        LET row == merged[i]
            rate == row.clicks_change_rate
        IN  /\ (row.clicks_comparison = 0 /\ row.clicks_current > 0) => rate.tag = "new"
            /\ (row.clicks_comparison = 0 /\ row.clicks_current = 0) =>
                   rate.tag = "num" /\ rate.num = 0
            /\ row.clicks_comparison # 0 =>
                   /\ rate.tag = "num"
                   /\ rate.den > 0
                   /\ rate.num * row.clicks_comparison =
                          (row.clicks_current - row.clicks_comparison) * 100 * rate.den

C1_Witness ==
    /\ TrendsReturned
    /\ \E i \in DOMAIN merged :
          merged[i].clicks_comparison = 0 /\ merged[i].clicks_current > 0
    /\ \E i \in DOMAIN merged :
          merged[i].clicks_comparison > 0 /\ merged[i].clicks_current > merged[i].clicks_comparison

\* the selection rule, written out for a merged row
SignificantByRule(row) ==
    \/ row.clicks_change_rate.tag = "new" /\ row.clicks_current >= min_clicks
    \/ /\ row.clicks_change_rate.tag = "num"
       /\ Abs(row.clicks_change_rate.num) >= change_threshold * row.clicks_change_rate.den
       /\ row.clicks_current >= min_clicks

\* C2: a merged row is returned if and only if its rate is the new marker and
\* its current clicks reach min_clicks, or its rate is a number of magnitude at
\* least change_threshold and its current clicks reach min_clicks; nothing
\* else is returned and no row is returned twice.
C2_SignificantIff ==
    TrendsReturned =>
        /\ \A i \in DOMAIN merged : SignificantByRule(merged[i]) <=> InTrendData(merged[i])
        /\ \A j \in DOMAIN trend_data.rows :
              \E i \in DOMAIN merged : merged[i] = trend_data.rows[j]
        /\ Len(trend_data.rows) =
              Cardinality({i \in DOMAIN merged : SignificantByRule(merged[i])})

\* comparison clicks 10, current clicks 15, change_threshold 50: included
C2_Witness ==
    /\ TrendsReturned
    /\ change_threshold = 50
    /\ \E j \in DOMAIN trend_data.rows :
          /\ trend_data.rows[j].clicks_comparison = 10
          /\ trend_data.rows[j].clicks_current = 15

\* C3: the merged table has exactly one row per query of either period, and
\* a query of one period only has 0 in the other period's clicks,
\* impressions, ctr and position.
C3_OuterJoin ==
    TrendsReturned =>
        LET curKeys == {current_gsc.rows[i].query : i \in DOMAIN current_gsc.rows}
            cmpKeys == {comparison_gsc.rows[i].query : i \in DOMAIN comparison_gsc.rows}
        IN  /\ Len(merged) = Cardinality(curKeys \cup cmpKeys)
            /\ \A q \in curKeys \cup cmpKeys :
                  Cardinality({i \in DOMAIN merged : merged[i].query = q}) = 1
            /\ \A i \in DOMAIN merged :
                  /\ merged[i].query \notin cmpKeys =>
                        /\ merged[i].clicks_comparison = 0
                        /\ merged[i].impressions_comparison = 0
                        /\ merged[i].ctr_comparison.num = 0
                        /\ merged[i].position_comparison.num = 0
                  /\ merged[i].query \notin curKeys =>
                        /\ merged[i].clicks_current = 0
                        /\ merged[i].impressions_current = 0
                        /\ merged[i].ctr_current.num = 0
                        /\ merged[i].position_current.num = 0

C3_Witness ==
    /\ TrendsReturned
    /\ \E i, j \in DOMAIN merged :
          /\ merged[i].impressions_comparison = 0 /\ merged[i].impressions_current > 0
          /\ merged[j].impressions_current = 0 /\ merged[j].impressions_comparison > 0

\* C4: the clicks_current of the merged rows sum to the clicks of all
\* current-period records, and each query's clicks_current is the sum of the
\* clicks of its current-period records.
C4_Conservation ==
    TrendsReturned =>
        /\ SumSeq(Column(merged, "clicks_current")) = SumSeq(Column(current_gsc.rows, "clicks"))
        /\ \A i \in DOMAIN merged :
              merged[i].clicks_current = CurrentClicksOf(merged[i].query)

\* a query with two current-period records that both carry clicks
C4_Witness ==
    /\ TrendsReturned
    /\ \E i, j \in DOMAIN current_gsc.rows :
          /\ i # j
          /\ current_gsc.rows[i].query = current_gsc.rows[j].query
          /\ current_gsc.rows[i].clicks > 0
          /\ current_gsc.rows[j].clicks > 0

QueriesOnlyInCurrent ==
    QueryKeys(current_gsc.rows) \ QueryKeys(comparison_gsc.rows)

NewRowReturned(q) ==
    \E j \in DOMAIN trend_data.rows :
        trend_data.rows[j].query = q /\ trend_data.rows[j].clicks_change_rate.tag = "new"

ZeroZero(row) == row.clicks_comparison = 0 /\ row.clicks_current = 0

TrendsRaisedOnlyOnEmptyFrame ==
    (pc = "done" /\ trend_data.status = "KeyError") =>
        (current_gsc.rows = <<>> \/ comparison_gsc.rows = <<>>)

\* C6 as stated: a merged row with comparison clicks 0 and current clicks 0
\* gets rate 0 without a fault and is excluded from the result for every
\* change_threshold >= 0 and every min_clicks >= 0.
C6_DivisionGuardAsStated ==
    /\ TrendsRaisedOnlyOnEmptyFrame
    /\ TrendsReturned =>
          \A i \in DOMAIN merged :
              ZeroZero(merged[i]) =>
                  /\ merged[i].clicks_change_rate = Numeric(0, 1)
                  /\ ~InTrendData(merged[i])

\* C6 amended: a merged row with comparison clicks 0 and current clicks 0
\* gets rate 0 without a fault, and is excluded from the result whenever
\* change_threshold > 0 or min_clicks > 0; with both 0 it is returned.
C6_DivisionGuard ==
    /\ TrendsRaisedOnlyOnEmptyFrame
    /\ TrendsReturned =>
          \A i \in DOMAIN merged :
              ZeroZero(merged[i]) =>
                  /\ merged[i].clicks_change_rate = Numeric(0, 1)
                  /\ InTrendData(merged[i]) <=> (change_threshold = 0 /\ min_clicks = 0)

\* a zero/zero row left out at min_clicks 0 because the threshold is positive
C6_Witness ==
    /\ TrendsReturned
    /\ change_threshold = 50
    /\ min_clicks = 0
    /\ \E i \in DOMAIN merged : ZeroZero(merged[i]) /\ ~InTrendData(merged[i])

\* C7: the returned rows are ordered by clicks_change non-increasing, new
\* rows and numeric-rate rows alike.
C7_SortedByClicksChange ==
    TrendsReturned =>
        \A j, k \in DOMAIN trend_data.rows :
            j < k => trend_data.rows[j].clicks_change >= trend_data.rows[k].clicks_change

\* a new row and a numeric-rate row with different clicks_change
C7_Witness ==
    /\ TrendsReturned
    /\ \E j, k \in DOMAIN trend_data.rows :
          /\ trend_data.rows[j].clicks_change_rate.tag = "new"
          /\ trend_data.rows[k].clicks_change_rate.tag = "num"
          /\ trend_data.rows[j].clicks_change # trend_data.rows[k].clicks_change

MergedIndex(row) == CHOOSE i \in DOMAIN merged : merged[i] = row

\* C8: two returned rows with equal clicks_change appear in the relative
\* order they have in the merged table.
C8_SortStability ==
    TrendsReturned =>
        \A j, k \in DOMAIN trend_data.rows :
            (j < k /\ trend_data.rows[j].clicks_change = trend_data.rows[k].clicks_change)
                => MergedIndex(trend_data.rows[j]) < MergedIndex(trend_data.rows[k])

\* C9: when the response of a period has no rows, analyze_trends,
\* analyze_performance and analyze_search_intent complete without raising, and
\* the trend and intent views are empty.
C9_EmptyInputNoError ==
    (pc = "done" /\ (current_gsc = EmptyFrame \/ comparison_gsc = EmptyFrame)) =>
        /\ trend_data.status # "KeyError"
        /\ performance_data.status # "KeyError"
        /\ intent_data.status # "KeyError"
        /\ trend_data.rows = <<>>
        /\ intent_data.rows = <<>>

(***************************************************************************)
(* Properties of analyze_conversion.                                       *)
(***************************************************************************)
Occurrences(rows, r) == Cardinality({i \in DOMAIN rows : rows[i] = r})

RowsIn(rows) == {rows[i] : i \in DOMAIN rows}

\* C10: analyze_conversion returns exactly the input records with
\* sessions >= 10, each as often as it occurs in the input; a returned record
\* with sessions 10 and conversions 0 has cvr 0.
C10_SessionsFloor ==
    pc = "done" =>
        /\ conversion_data.status = "ok"
        /\ \A r \in RowsIn(ga4_data.rows) \cup RowsIn(conversion_data.rows) :
              Occurrences(conversion_data.rows, r) =
                  IF r.sessions >= 10 THEN Occurrences(ga4_data.rows, r) ELSE 0
        /\ \A j \in DOMAIN conversion_data.rows :
              (conversion_data.rows[j].sessions = 10 /\ conversion_data.rows[j].conversions = 0)
                  => conversion_data.rows[j].cvr.num = 0

\* sessions 9 with 9 conversions left out, sessions 10 with none kept
C10_Witness ==
    /\ pc = "done"
    /\ \E i \in DOMAIN ga4_data.rows :
          ga4_data.rows[i].sessions = 9 /\ ga4_data.rows[i].conversions = 9
    /\ \A j \in DOMAIN conversion_data.rows : conversion_data.rows[j].sessions # 9
    /\ \E j \in DOMAIN conversion_data.rows :
          /\ conversion_data.rows[j].sessions = 10
          /\ conversion_data.rows[j].conversions = 0
          /\ conversion_data.rows[j].cvr.num = 0

\* C11: the rows returned by analyze_conversion are ordered by cvr
\* non-increasing.
C11_SortedByCvr ==
    pc = "done" =>
        \A j, k \in DOMAIN conversion_data.rows :
            j < k =>
                conversion_data.rows[j].cvr.num * conversion_data.rows[k].cvr.den
                    >= conversion_data.rows[k].cvr.num * conversion_data.rows[j].cvr.den

\* two returned rows with different cvr
C11_Witness ==
    /\ pc = "done"
    /\ \E j, k \in DOMAIN conversion_data.rows :
          conversion_data.rows[j].cvr.num * conversion_data.rows[k].cvr.den
              > conversion_data.rows[k].cvr.num * conversion_data.rows[j].cvr.den

AllBelowFloor(rows) == \A i \in DOMAIN rows : rows[i].sessions < 10

\* C12: for an input that is None, empty, or whose records all have fewer
\* than 10 sessions, analyze_conversion returns an empty result and does not
\* raise.
C12_MissingDataEmptyResult ==
    (pc = "done" /\ (ga4_data = None \/ ga4_data.rows = <<>> \/ AllBelowFloor(ga4_data.rows)))
        => conversion_data = Ok(<<>>)

\* the analytics fetch failed and the analysis returned the empty result
C12_Witness ==
    /\ pc = "done"
    /\ ga4_data = None
    /\ conversion_data = Ok(<<>>)

CvrByRule(row) ==
    /\ row.cvr.den > 0
    /\ row.sessions > 0 => row.cvr.num * row.sessions = row.conversions * row.cvr.den
    /\ row.sessions = 0 => row.cvr.num = 0

\* C13: every conversion row has cvr = conversions / sessions when
\* sessions > 0 and cvr = 0 when sessions = 0, a well-defined number in
\* both cases.
C13_CvrGuarded ==
    /\ \A i \in DOMAIN ga4_data.rows : CvrByRule(ga4_data.rows[i])
    /\ \A j \in DOMAIN conversion_data.rows : CvrByRule(conversion_data.rows[j])

\* a record without sessions next to one with sessions and conversions
C13_Witness ==
    \E i, j \in DOMAIN ga4_data.rows :
        /\ ga4_data.rows[i].sessions = 0
        /\ ga4_data.rows[i].conversions > 0
        /\ ga4_data.rows[j].sessions > 0
        /\ ga4_data.rows[j].cvr.num > 0

\* the source/medium values of the model that contain "organic" in any case
OrganicMedia == {GoogleOrganic, BingOrganicUpper}

OrganicRowsOf(response) == SelectSeq(response, LAMBDA row : row.source_medium \in OrganicMedia)

\* C14: ga4_to_dataframe retains a response row if and only if its
\* source/medium contains "organic" ignoring case: the frame holds the
\* organic rows of the response, in order, and nothing else.
C14_OrganicOnly ==
    pc \in {"analyze_ga4", "done"} =>
        /\ Len(ga4_data.rows) = Len(OrganicRowsOf(ga4_response))
        /\ \A i \in DOMAIN ga4_data.rows :
              /\ ga4_data.rows[i].source_medium = OrganicRowsOf(ga4_response)[i].source_medium
              /\ ga4_data.rows[i].sessions = ParseInt(OrganicRowsOf(ga4_response)[i].sessions)
              /\ ga4_data.rows[i].conversions = ParseInt(OrganicRowsOf(ga4_response)[i].conversions)

\* an upper-case organic row kept and a direct row dropped
C14_Witness ==
    /\ pc = "analyze_ga4"
    /\ \E i \in DOMAIN ga4_response : ga4_response[i].source_medium = DirectNone
    /\ \E i \in DOMAIN ga4_response : ga4_response[i].source_medium = BingOrganicUpper
    /\ Len(ga4_data.rows) = 1
    /\ ga4_data.rows[1].source_medium = BingOrganicUpper

(***************************************************************************)
(* Properties of analyze_search_intent and of the page of a summary.       *)
(***************************************************************************)
IntentReturned == pc = "done" /\ intent_data.status = "ok"

GroupRows(q, p) == SelectSeq(current_gsc.rows, LAMBDA r : r.query = q /\ r.page = p)

GroupImpressions(q, p) == SumSeq(Column(GroupRows(q, p), "impressions"))

GroupCtrSum(q, p) == SumSeq(Column(GroupRows(q, p), "ctr"))

GroupSelected(q, p) ==
    /\ GroupImpressions(q, p) >= min_impressions
    /\ GroupCtrSum(q, p) < ctr_threshold * Len(GroupRows(q, p))

IntentRowsOf(q, p) ==
    {j \in DOMAIN intent_data.rows :
        intent_data.rows[j].query = q /\ intent_data.rows[j].page = p}

GroupKeys == {<<current_gsc.rows[i].query, current_gsc.rows[i].page>> :
                 i \in DOMAIN current_gsc.rows}

\* C15: analyze_search_intent returns exactly the (query, page) groups whose
\* summed impressions reach min_impressions and whose mean ctr is strictly
\* below ctr_threshold, each once.
C15_IntentSelection ==
    IntentReturned =>
        /\ \A k \in GroupKeys :
              Cardinality(IntentRowsOf(k[1], k[2])) = IF GroupSelected(k[1], k[2]) THEN 1 ELSE 0
        /\ \A j \in DOMAIN intent_data.rows :
              <<intent_data.rows[j].query, intent_data.rows[j].page>> \in GroupKeys

\* at min_impressions 100 and ctr_threshold 0.05: a group with impressions 100
\* and ctr 0.05 left out, one with impressions 100 and ctr 0.0499 returned
C15_Witness ==
    /\ IntentReturned
    /\ min_impressions = 100
    /\ ctr_threshold = 500
    /\ \E k \in GroupKeys :
          /\ GroupImpressions(k[1], k[2]) = 100
          /\ GroupCtrSum(k[1], k[2]) = 500
          /\ IntentRowsOf(k[1], k[2]) = {}
    /\ \E k \in GroupKeys :
          /\ GroupImpressions(k[1], k[2]) = 100
          /\ GroupCtrSum(k[1], k[2]) = 499
          /\ IntentRowsOf(k[1], k[2]) # {}

FirstRecordOf(q) ==
    current_gsc.rows[CHOOSE i \in DOMAIN current_gsc.rows :
                        /\ current_gsc.rows[i].query = q
                        /\ \A h \in 1..(i - 1) : current_gsc.rows[h].query # q]

\* C18: in the query grouping of analyze_trends the page of a query is the
\* page of its first current-period record in input order.
C18_PageOfFirstRecord ==
    TrendsReturned =>
        \A i \in DOMAIN merged :
            merged[i].query \in QueryKeys(current_gsc.rows)
                => merged[i].page = FirstRecordOf(merged[i].query).page

\* a query whose first record is on page 2 and whose second is on page 1
C18_Witness ==
    /\ TrendsReturned
    /\ Len(current_gsc.rows) = 2
    /\ current_gsc.rows[1].query = current_gsc.rows[2].query
    /\ current_gsc.rows[1].page = 2
    /\ current_gsc.rows[2].page = 1
    /\ merged[1].page = 2

\* C19: selection compares the raw mean ctr with ctr_threshold, and the ctr
\* of every returned row is 100 times that compared value: every group with
\* enough impressions and raw mean ctr below the threshold is returned, and
\* each returned row carries 100 * (ctr sum / record count) of its group.
C19_ScaledAfterSelection ==
    IntentReturned =>
        /\ \A k \in GroupKeys : GroupSelected(k[1], k[2]) => IntentRowsOf(k[1], k[2]) # {}
        /\ \A j \in DOMAIN intent_data.rows :
              LET row == intent_data.rows[j]
              IN  /\ row.ctr.den > 0
                  /\ row.ctr.num * Len(GroupRows(row.query, row.page))
                         = 100 * GroupCtrSum(row.query, row.page) * row.ctr.den
                  /\ GroupCtrSum(row.query, row.page)
                         < ctr_threshold * Len(GroupRows(row.query, row.page))

\* a returned row with raw ctr 0.0499, shown as 4.99
C19_Witness ==
    /\ IntentReturned
    /\ ctr_threshold = 500
    /\ \E j \in DOMAIN intent_data.rows :
          intent_data.rows[j].ctr.num = 49900 * intent_data.rows[j].ctr.den

(***************************************************************************)
(* Properties of analyze_performance.                                      *)
(***************************************************************************)
TotalsOf(total, period, rows) ==
    /\ total.period = period
    /\ total.total_clicks = SumSeq([i \in DOMAIN rows |-> rows[i].clicks])
    /\ total.total_impressions = SumSeq([i \in DOMAIN rows |-> rows[i].impressions])
    /\ total.unique_queries = Cardinality({rows[i].query : i \in DOMAIN rows})

\* C16: analyze_performance returns exactly two rows, the current period
\* first and the comparison period second; each row's total_clicks and
\* total_impressions are the sums over that period's raw records and its
\* unique_queries is the number of distinct queries of those records.
C16_PerformanceRows ==
    (pc = "done" /\ performance_data.status = "ok") =>
        /\ Len(performance_data.rows) = 2
        /\ TotalsOf(performance_data.rows[1], "current", current_gsc.rows)
        /\ TotalsOf(performance_data.rows[2], "comparison", comparison_gsc.rows)

\* two periods that differ in clicks, impressions and number of queries
C16_Witness ==
    /\ pc = "done"
    /\ performance_data.status = "ok"
    /\ performance_data.rows[1].total_clicks # performance_data.rows[2].total_clicks
    /\ performance_data.rows[1].total_impressions # performance_data.rows[2].total_impressions
    /\ performance_data.rows[1].unique_queries = 2
    /\ performance_data.rows[2].unique_queries = 1

(***************************************************************************)
(* Properties of the trend tab.                                            *)
(***************************************************************************)
\* C20: when the trend view is sorted by change rate, every new row precedes
\* every numeric-rate row in descending order and follows every numeric-rate
\* row in ascending order.
C20_NewSortsAsInfinite ==
    (pc = "shown" /\ trend_sort.column = "clicks_change_rate") =>
        \A j, k \in DOMAIN filtered_data.rows :
            (/\ filtered_data.rows[j].clicks_change_rate.tag = "new"
             /\ filtered_data.rows[k].clicks_change_rate.tag = "num")
                => IF trend_sort.ascending THEN k < j ELSE j < k

(***************************************************************************)
(* The clicks floor of analyze_trends.                                     *)
(***************************************************************************)
QueriesOnlyInComparison ==
    QueryKeys(comparison_gsc.rows) \ QueryKeys(current_gsc.rows)

QueryReturned(q) == \E j \in DOMAIN trend_data.rows : trend_data.rows[j].query = q

\* C29: every row returned by analyze_trends has current clicks >= min_clicks,
\* and for min_clicks >= 1 a query found only in the comparison period is not
\* returned, whatever change_threshold is.
C29_CurrentClicksFloor ==
    TrendsReturned =>
        /\ \A j \in DOMAIN trend_data.rows : trend_data.rows[j].clicks_current >= min_clicks
        /\ min_clicks >= 1 => \A q \in QueriesOnlyInComparison : ~QueryReturned(q)

\* a lost query (10 clicks before, none now, rate -100) passes the threshold
\* 50 and is left out by the floor 5, next to a returned row
C29_Witness ==
    /\ TrendsReturned
    /\ change_threshold = 50
    /\ min_clicks = 5
    /\ Len(trend_data.rows) > 0
    /\ \E q \in QueriesOnlyInComparison :
          /\ SumSeq(Column(RowsOfQuery(comparison_gsc.rows, q), "clicks")) = 10
          /\ ~QueryReturned(q)

(***************************************************************************)
(* Properties of the run button, the period settings and the session       *)
(* cache.  After a run, pc = "done" says that the views are displayed and  *)
(* the frames and results are the ones read from the caches.               *)
(***************************************************************************)
ViewsShown == session_state.run_analysis /\ pc = "done"

\* C21: the views shown after a run are derived from the comparison period
\* selected for that run: the comparison frame read from the cache is the
\* search data of the stored comparison range (a run with a new comparison
\* range does not reuse an earlier entry).
C21_CacheKeyedByComparisonRange ==
    ViewsShown =>
        comparison_gsc =
            gsc_to_dataframe(SearchAnalytics(session_state.analysis_comparison_start,
                                             session_state.analysis_comparison_end))

\* C22: in simple period mode with N analysis days the stored comparison
\* period runs from N*2 days ago to N+1 days ago and the current period from
\* N days ago to the day of the run.
C22_SimpleModeComparisonRange ==
    (session_state.run_analysis /\ session_state.period_mode = "simple") =>
        LET N == session_state.days_ago
        IN  /\ session_state.analysis_current_end = today
            /\ session_state.analysis_current_start = today - N
            /\ session_state.analysis_comparison_end = today - (N + 1)
            /\ session_state.analysis_comparison_start = today - N * 2

\* C26: a failed search-performance fetch stores nothing: after a run that
\* stopped on (None, None) neither cache has an entry for the key of the run,
\* and no entry of the data cache holds a failed result.
C26_FailedFetchNotCached ==
    /\ (session_state.run_analysis /\ pc = "stopped" /\ current_gsc = None) =>
            /\ cache_key(session_state) \notin DOMAIN session_state.data_cache
            /\ cache_key(session_state) \notin DOMAIN session_state.analysis_results_cache
    /\ \A key \in DOMAIN session_state.data_cache :
            /\ session_state.data_cache[key].current_gsc # None
            /\ session_state.data_cache[key].comparison_gsc # None

\* a failed fetch for one key in a session that holds an entry for another
C26_Witness ==
    /\ session_state.run_analysis
    /\ pc = "stopped"
    /\ current_gsc = None
    /\ session_state.data_cache # <<>>
    /\ cache_key(session_state) \notin DOMAIN session_state.data_cache

\* C27: the trend and intent views displayed are the results for the
\* thresholds stored by the most recent run.
C27_ViewsUseStoredThresholds ==
    ViewsShown =>
        /\ trend_data \in analyze_trends(current_gsc, comparison_gsc,
                                         session_state.change_threshold,
                                         session_state.min_clicks)
        /\ intent_data \in analyze_search_intent(current_gsc,
                                                 session_state.ctr_threshold,
                                                 session_state.min_impressions)

\* C30: in every run the stored comparison period ends strictly before the
\* stored current period starts.
C30_PeriodsDoNotOverlap ==
    session_state.run_analysis =>
        session_state.analysis_comparison_end < session_state.analysis_current_start

(***************************************************************************)
(* Properties of the search quota.  A step is a call of                    *)
(* search_competitors_google when search_call'.returned is not "none".     *)
(***************************************************************************)
CallMade == search_call'.returned # "none"

\* daily_queries at the quota check of a call made now
QueriesAtCheck ==
    IF session_state.query_date # today THEN 0 ELSE session_state.daily_queries

BlockedCall == search_call'.returned = "empty" /\ ~search_call'.issued

\* C23: every call that issues a search request leaves daily_queries exactly
\* 1 above its value at the quota check, and every call that issues no
\* request leaves it at that value.
C23_OneQueryPerRequest ==
    [][CallMade =>
          /\ search_call'.issued =>
                session_state'.daily_queries = QueriesAtCheck + 1
          /\ ~search_call'.issued =>
                session_state'.daily_queries = QueriesAtCheck]_vars

\* C24 as stated: while payment is not approved daily_queries <= 100, and a
\* call made while daily_queries >= 100 returns an empty list without issuing
\* a search request.
C24_FreeQuotaCapAsStated ==
    /\ [](~session_state.payment_approved => session_state.daily_queries <= FreeQuota)
    /\ [][(/\ CallMade
           /\ ~session_state.payment_approved
           /\ session_state.daily_queries >= FreeQuota) => BlockedCall]_vars

\* C24: while payment is not approved daily_queries <= 100, and a call made
\* on the stored query_date while daily_queries >= 100 returns an empty list
\* without issuing a search request.
C24_FreeQuotaCap ==
    /\ [](~session_state.payment_approved => session_state.daily_queries <= FreeQuota)
    /\ [][(/\ CallMade
           /\ ~session_state.payment_approved
           /\ session_state.query_date = today
           /\ session_state.daily_queries >= FreeQuota) => BlockedCall]_vars

\* a call refused at 100 queries on the day of the count
C24_Witness ==
    /\ session_state.daily_queries = FreeQuota
    /\ ~session_state.payment_approved
    /\ session_state.query_date = today
    /\ search_call.error = "quota"

(***************************************************************************)
(* Properties of the article analysis handlers.                            *)
(***************************************************************************)
\* the step asks for a competitive analysis of a fetched article
CompetitiveRequest ==
    /\ ArticleAnalysis
    /\ message' = "quota_exceeded" \/ search_call'.returned # "none"

\* C25: a competitive analysis asked on a date different from the stored
\* query_date reaches search_competitors_google, which sets daily_queries to
\* 0 and query_date to the new date before the quota check: the session is
\* not refused for the queries of an earlier day, and daily_queries counts
\* the searches of the new date only.
C25_DailyReset ==
    [][(CompetitiveRequest /\ session_state.query_date # today) =>
          /\ message' = "completed"
          /\ session_state'.query_date = today
          /\ session_state'.daily_queries \in {0, 1}
          /\ session_state'.daily_queries = 1 <=> search_call'.error = "none"]_vars

\* C28: a competitive analysis asked while daily_queries >= 100 and payment
\* is not approved reports the quota error, appends no record, saves no file
\* and raises no fault.
C28_QuotaErrorHandled ==
    [][(/\ CompetitiveRequest
        /\ session_state.daily_queries >= FreeQuota
        /\ ~session_state.payment_approved) =>
          /\ message' = "quota_exceeded"
          /\ session_state'.article_analyses = session_state.article_analyses
          /\ saved_file' = FALSE
          /\ fault' = "none"]_vars

====
